---- MODULE Spec2Model ----
(***************************************************************************)
(* The to-do page of gbs-react-todo (src/src/pages/todo/index.tsx): the    *)
(* four pieces of component state, one action per event handler, and the  *)
(* statistics the page derives from the list.                             *)
(*                                                                         *)
(* A string is a sequence of one-character strings, so that trim() is     *)
(* computed and not assumed.                                               *)
(***************************************************************************)
EXTENDS Integers, Sequences, FiniteSets

\* ------------------------------------------------------------- bounds
\* longest string typed into either input field
MaxLen == 2
\* most items the list holds (addTodo is not taken beyond it)
MaxTodos == 2
\* most handlers that call setTodos before one render
MaxBatch == 2
\* largest reading of Date.now()
MaxClock == 2

\* ------------------------------------------------------------- values
\* useState<number | null>(null): the null of editingId (Date.now() > 0)
Null == 0

WhiteSpace == {" "}
Chars == {" ", "a"}

\* every string of at most MaxLen characters
Texts == UNION {[1..n -> Chars] : n \in 0..MaxLen}

\* the readings of Date.now(): wall-clock milliseconds, so two calls may read
\* the same value; each call of addTodo draws one reading
Clock == 1..MaxClock

\* the values of a parameter id: number
Ids == Clock

\* type Todo = {id, text, completed}
Todo == [id : Ids, text : Texts, completed : BOOLEAN]

\* ------------------------------------------------------------- String.prototype.trim
RECURSIVE TrimStart(_)
TrimStart(s) ==
  IF s = <<>> THEN s
  ELSE IF Head(s) \in WhiteSpace THEN TrimStart(Tail(s)) ELSE s

RECURSIVE TrimEnd(_)
TrimEnd(s) ==
  IF s = <<>> THEN s
  ELSE IF s[Len(s)] \in WhiteSpace THEN TrimEnd(SubSeq(s, 1, Len(s) - 1)) ELSE s

Trim(s) == TrimEnd(TrimStart(s))

\* ------------------------------------------------------------- state
VARIABLES
  todos,        \* useState<Todo[]>([])
  inputValue,   \* useState('')
  editingId,    \* useState<number | null>(null)
  editingText,  \* useState('')
  last,         \* the handler that ran last: its name, id argument, the text it read
  prev,         \* todos before the handler that ran last
  before2,      \* todos before the last two handlers, kept for a repeated toggle
  held,         \* the array that was todos before the last handler, as it is now
  script,       \* the scripted run: its step and the two texts it types
  queue,        \* the updates queued by setState calls and not yet rendered
  eager,        \* the list with every queued setTodos updater applied at once
  pressed,      \* the key event handled last: its field, key and item; none for other events
  appTodos,     \* useState<Todo[]>([]) of the tutorial's component-split TodoApp
  state         \* useReducer(todoReducer, {todos: []}) of the tutorial

vars == <<todos, inputValue, editingId, editingText, last, prev, before2, held,
          script, queue, eager, pressed, appTodos, state>>

\* the record of the handler that ran last: op, id and arg name the handler,
\* its id argument and the text it read; rep and del tell a repeated toggle
\* and a handler called for the id deleted just before, tog a save of the
\* item in edit mode that was toggled just before; eid and etext are
\* editingId and editingText before the handler; sess and start describe the
\* edit session the handler belongs to and the list before its start-edit
NoHandler ==
  [op |-> "none", id |-> Null, arg |-> <<>>, rep |-> FALSE, del |-> FALSE,
   tog |-> FALSE, eid |-> Null, etext |-> <<>>, sess |-> "none", start |-> <<>>]

\* no key event
NoKey == [field |-> "none", key |-> "none", id |-> Null]

\* no scripted run
NoScript == [step |-> "off", a |-> <<>>, b |-> <<>>]

Init ==
  /\ todos = <<>>
  /\ inputValue = <<>>
  /\ editingId = Null
  /\ editingText = <<>>
  /\ last = NoHandler
  /\ prev = <<>>
  /\ before2 = <<>>
  /\ held = <<>>
  /\ script = NoScript
  /\ queue = <<>>
  /\ eager = <<>>
  /\ pressed = NoKey
  /\ appTodos = <<>>
  /\ state = [todos |-> <<>>]

\* ------------------------------------------------------------- the updaters given to setTodos
\* the guard written as x === '', the trim() left out
IsBlankNoTrim(s) == s = <<>>

\* the guard of addTodo and saveEdit: x.trim() === ''
IsBlank(s) == Trim(s) = <<>>

\* the item built with text: inputValue.trim()
newTodoTrimmed(now, text) == [id |-> now, text |-> Trim(text), completed |-> FALSE]

\* const newTodo: Todo = {id: Date.now(), text: inputValue, completed: false}
newTodo(now, text) == [id |-> now, text |-> text, completed |-> FALSE]

\* the new item put first: [newTodo, ...prev]
addUpdaterPrepend(list, item) == <<item>> \o list

\* prev => [...prev, newTodo]
addUpdater(list, item) == Append(list, item)

\* the toggled item moved behind the others
toggleUpdaterMoveToEnd(list, id) ==
  SelectSeq(list, LAMBDA t : t.id # id) \o
    [i \in DOMAIN SelectSeq(list, LAMBDA t : t.id = id) |->
       [SelectSeq(list, LAMBDA t : t.id = id)[i] EXCEPT !.completed = ~@]]

\* the flag set with completed: true where the code negates it
toggleUpdaterSetTrue(list, id) ==
  [i \in DOMAIN list |->
     IF list[i].id = id THEN [list[i] EXCEPT !.completed = TRUE] ELSE list[i]]

\* the flag negated for the first item with the id only (findIndex, not map)
toggleUpdaterFirstOnly(list, id) ==
  [i \in DOMAIN list |->
     IF list[i].id = id /\ \A j \in 1..(i - 1) : list[j].id # id
     THEN [list[i] EXCEPT !.completed = ~list[i].completed]
     ELSE list[i]]

\* prev => prev.map(todo => todo.id === id ? {...todo, completed: !todo.completed} : todo)
toggleUpdater(list, id) ==
  [i \in DOMAIN list |->
     IF list[i].id = id THEN [list[i] EXCEPT !.completed = ~list[i].completed]
     ELSE list[i]]

\* the filter written with === where the code has !==
deleteUpdaterInverted(list, id) == SelectSeq(list, LAMBDA t : t.id = id)

\* prev => prev.filter(todo => todo.id !== id)
deleteUpdater(list, id) == SelectSeq(list, LAMBDA t : t.id # id)

\* an edit that creates the item when no item has the id
editUpdaterUpsert(list, id, text) ==
  IF \E i \in DOMAIN list : list[i].id = id
  THEN [i \in DOMAIN list |->
          IF list[i].id = id THEN [list[i] EXCEPT !.text = text] ELSE list[i]]
  ELSE Append(list, [id |-> id, text |-> text, completed |-> FALSE])

\* the edited item rebuilt as {id, text, completed: false}
editUpdaterResetsCompleted(list, id, text) ==
  [i \in DOMAIN list |->
     IF list[i].id = id THEN [id |-> id, text |-> text, completed |-> FALSE]
     ELSE list[i]]

\* the text written as editingText.trim()
editUpdaterTrimmed(list, id, text) ==
  [i \in DOMAIN list |->
     IF list[i].id = id THEN [list[i] EXCEPT !.text = Trim(text)] ELSE list[i]]

\* prev => prev.map(todo => todo.id === id ? {...todo, text: editingText} : todo)
editUpdater(list, id, text) ==
  [i \in DOMAIN list |->
     IF list[i].id = id THEN [list[i] EXCEPT !.text = text] ELSE list[i]]

\* ------------------------------------------------------------- what an updater leaves of its argument
\* Each updater reads the array it is given (prev) and returns another one.
\* These give the content of the argument array once the updater has returned.

\* [...prev, newTodo] copies prev
afterAddUpdater(list, item) == list

\* the flag written in place: todo.completed = !todo.completed
afterToggleUpdaterInPlace(list, id) ==
  [i \in DOMAIN list |->
     IF list[i].id = id THEN [list[i] EXCEPT !.completed = ~list[i].completed]
     ELSE list[i]]

\* prev.map builds a new array, {...todo, completed} a new object
afterToggleUpdater(list, id) == list

\* prev.filter builds a new array
afterDeleteUpdater(list, id) == list

\* prev.map builds a new array, {...todo, text} a new object
afterEditUpdater(list, id, text) == list

\* ------------------------------------------------------------- the statistics of the page
\* 전체: {todos.length}
statsTotal == Len(todos)
\* 완료: {todos.filter(t => t.completed).length}
statsCompleted == Len(SelectSeq(todos, LAMBDA t : t.completed))
\* the open items counted with the negation left out
statsRemainingNoNegation == Len(SelectSeq(todos, LAMBDA t : t.completed))
\* 미완료: {todos.filter(t => !t.completed).length}
statsRemaining == Len(SelectSeq(todos, LAMBDA t : ~t.completed))

\* ------------------------------------------------------------- helpers over the list
HasId(list, id) == \E i \in DOMAIN list : list[i].id = id

Ran(op, id, arg) == [NoHandler EXCEPT !.op = op, !.id = id, !.arg = arg]

\* an edit session is open: start-edit has run and since then only typing in
\* the edit field and keys the handlers ignore
Open == last.sess # "none" /\ last.op \notin {"cancelEdit", "saveEdit"}

\* the record of a handler that ran inside the open session, if one is open
InSession(r, sess) ==
  IF Open THEN [r EXCEPT !.sess = sess, !.start = last.start] ELSE r

\* the record of a handler with editingId and editingText as it found them
Found(r) == [r EXCEPT !.eid = editingId, !.etext = editingText]

\* the handler that ran last was toggleTodo(id) for the item in edit mode
JustToggled(id) == last.op = "toggleTodo" /\ last.id = id /\ last.eid = id

\* the handler that ran last was deleteTodo(id) and it removed an item
JustDeleted(id) == last.op = "deleteTodo" /\ last.id = id /\ Len(todos) < Len(prev)

\* ------------------------------------------------------------- handlers
\* onChange={(e) => setInputValue(e.target.value)}
SetInputValue(v) ==
  /\ inputValue' = v
  /\ last' = Ran("setInputValue", Null, v)
  /\ prev' = todos
  /\ held' = todos
  /\ before2' = <<>>
  /\ UNCHANGED <<todos, editingId, editingText>>

\* addTodo with the line setInputValue('') left out
addTodoKeepsInput ==
  /\ IF IsBlank(inputValue)
     THEN /\ UNCHANGED todos
          /\ last' = Ran("addTodo", Null, inputValue)
          /\ held' = todos
     ELSE /\ Len(todos) < MaxTodos
          /\ \E now \in Clock :
               /\ todos' = addUpdater(todos, newTodo(now, inputValue))
               /\ held' = afterAddUpdater(todos, newTodo(now, inputValue))
               /\ last' = Ran("addTodo", now, inputValue)
  /\ prev' = todos
  /\ before2' = <<>>
  /\ UNCHANGED <<inputValue, editingId, editingText>>

\* addTodo: the early return on a blank input, else one reading of the clock
addTodo ==
  /\ IF IsBlank(inputValue)
     THEN /\ UNCHANGED <<todos, inputValue>>
          /\ last' = Ran("addTodo", Null, inputValue)
          /\ held' = todos
     ELSE /\ Len(todos) < MaxTodos
          /\ \E now \in Clock :
               /\ todos' = addUpdater(todos, newTodo(now, inputValue))
               /\ held' = afterAddUpdater(todos, newTodo(now, inputValue))
               /\ last' = Ran("addTodo", now, inputValue)
          /\ inputValue' = <<>>
  /\ prev' = todos
  /\ before2' = <<>>
  /\ UNCHANGED <<editingId, editingText>>

toggleTodo(id) ==
  /\ todos' = toggleUpdater(todos, id)
  /\ held' = afterToggleUpdater(todos, id)
  /\ last' = Found([Ran("toggleTodo", id, <<>>) EXCEPT
                        !.rep = (last.op = "toggleTodo" /\ last.id = id),
                        !.del = JustDeleted(id)])
  /\ prev' = todos
  /\ before2' = IF last.op = "toggleTodo" /\ last.id = id THEN prev ELSE <<>>
  /\ UNCHANGED <<inputValue, editingId, editingText>>

deleteTodo(id) ==
  /\ todos' = deleteUpdater(todos, id)
  /\ held' = afterDeleteUpdater(todos, id)
  /\ last' = Ran("deleteTodo", id, <<>>)
  /\ prev' = todos
  /\ before2' = <<>>
  /\ UNCHANGED <<inputValue, editingId, editingText>>

\* startEdit with the edit field opened empty: setEditingText('')
startEditEmptyText(id, text) ==
  /\ editingId' = id
  /\ editingText' = <<>>
  /\ last' = [Ran("startEdit", id, text) EXCEPT
                !.del = JustDeleted(id), !.eid = editingId,
                !.sess = "started", !.start = todos]
  /\ prev' = todos
  /\ held' = todos
  /\ before2' = <<>>
  /\ UNCHANGED <<todos, inputValue>>

\* startEdit that first writes the pending text to the item edited so far
startEditSavesPending(id, text) ==
  /\ todos' = editUpdater(todos, editingId, editingText)
  /\ editingId' = id
  /\ editingText' = text
  /\ last' = [Ran("startEdit", id, text) EXCEPT
                !.del = JustDeleted(id), !.eid = editingId,
                !.sess = "started", !.start = todos]
  /\ prev' = todos
  /\ held' = todos
  /\ before2' = <<>>
  /\ UNCHANGED inputValue

\* const startEdit = (id, text) => {setEditingId(id); setEditingText(text)}
startEdit(id, text) ==
  /\ editingId' = id
  /\ editingText' = text
  /\ last' = [Ran("startEdit", id, text) EXCEPT
                !.del = JustDeleted(id), !.eid = editingId,
                !.sess = "started", !.start = todos]
  /\ prev' = todos
  /\ held' = todos
  /\ before2' = <<>>
  /\ UNCHANGED <<todos, inputValue>>

\* cancelEdit that writes the pending text to the item before it leaves edit mode
cancelEditSaves ==
  /\ todos' = editUpdater(todos, editingId, editingText)
  /\ editingId' = Null
  /\ editingText' = <<>>
  /\ last' = InSession(Ran("cancelEdit", Null, <<>>), last.sess)
  /\ prev' = todos
  /\ held' = todos
  /\ before2' = <<>>
  /\ UNCHANGED inputValue

\* const cancelEdit = () => {setEditingId(null); setEditingText('')}
cancelEdit ==
  /\ editingId' = Null
  /\ editingText' = <<>>
  /\ last' = InSession(Ran("cancelEdit", Null, <<>>), last.sess)
  /\ prev' = todos
  /\ held' = todos
  /\ before2' = <<>>
  /\ UNCHANGED <<todos, inputValue>>

\* onChange={(e) => setEditingText(e.target.value)}
SetEditingText(v) ==
  /\ editingText' = v
  /\ last' = InSession(Ran("setEditingText", Null, v), "typed")
  /\ prev' = todos
  /\ held' = todos
  /\ before2' = <<>>
  /\ UNCHANGED <<todos, inputValue, editingId>>

\* saveEdit that leaves edit mode also when it rejects a blank text
saveEditLeavesOnBlank(id) ==
  /\ IF IsBlank(editingText)
     THEN /\ UNCHANGED todos
          /\ held' = todos
     ELSE /\ todos' = editUpdater(todos, id, editingText)
          /\ held' = afterEditUpdater(todos, id, editingText)
  /\ editingId' = Null
  /\ editingText' = <<>>
  /\ last' = InSession(Found([Ran("saveEdit", id, editingText) EXCEPT
                                  !.del = JustDeleted(id),
                                  !.tog = JustToggled(id)]), last.sess)
  /\ prev' = todos
  /\ before2' = <<>>
  /\ UNCHANGED inputValue

\* saveEdit: the early return on a blank text, else the update and the reset
saveEdit(id) ==
  /\ IF IsBlank(editingText)
     THEN /\ UNCHANGED <<todos, editingId, editingText>>
          /\ held' = todos
     ELSE /\ todos' = editUpdater(todos, id, editingText)
          /\ held' = afterEditUpdater(todos, id, editingText)
          /\ editingId' = Null
          /\ editingText' = <<>>
  /\ last' = InSession(Found([Ran("saveEdit", id, editingText) EXCEPT
                                  !.del = JustDeleted(id),
                                  !.tog = JustToggled(id)]), last.sess)
  /\ prev' = todos
  /\ before2' = <<>>
  /\ UNCHANGED inputValue

\* a key handler that calls nothing: no setter runs
Ignored(op) ==
  /\ last' = InSession(Found(Ran(op, Null, <<>>)), last.sess)
  /\ prev' = todos
  /\ held' = todos
  /\ before2' = <<>>
  /\ UNCHANGED <<todos, inputValue, editingId, editingText>>

\* the values of e.key: the two keys the handlers name and another one
Keys == {"Enter", "Escape", "a"}

\* handleKeyPress: if (e.key === 'Enter') addTodo()
handleKeyPress(key) ==
  IF key = "Enter" THEN addTodo ELSE Ignored("handleKeyPress")

\* the two keys of handleEditKeyPress exchanged
handleEditKeyPressSwapped(key, id) ==
  IF key = "Escape" THEN saveEdit(id)
  ELSE IF key = "Enter" THEN cancelEdit
  ELSE Ignored("handleEditKeyPress")

\* handleEditKeyPress: Enter saves the item, Escape cancels
handleEditKeyPress(key, id) ==
  IF key = "Enter" THEN saveEdit(id)
  ELSE IF key = "Escape" THEN cancelEdit
  ELSE Ignored("handleEditKeyPress")

\* ------------------------------------------------------------- the events the rendered page offers
\* {editingId === todo.id ? (edit field, save, cancel) : (text, edit, delete)}
InEditMode(todo) == editingId = todo.id

\* every event is rendered before the next one: nothing stays queued; the
\* tutorial's variants are other programs and see no event of the page
Flushed == UNCHANGED <<script, queue, eager, appTodos, state>>

\* an event of the mouse or a change of a field: no key handler runs
ByPointer == pressed' = NoKey

\* a key handler runs for a key pressed in the add field or in an item's edit field
ByKey(field, key, id) == pressed' = [field |-> field, key |-> key, id |-> id]

ChangeInput == Flushed /\ ByPointer /\ \E v \in Texts : SetInputValue(v)
ClickAdd == Flushed /\ ByPointer /\ addTodo
ClickCheckbox == Flushed /\ ByPointer /\ \E i \in DOMAIN todos : toggleTodo(todos[i].id)
\* the delete button rendered for the item in edit mode too
ClickDeleteAnyRow ==
  Flushed /\ ByPointer /\ \E i \in DOMAIN todos : deleteTodo(todos[i].id)

ClickDelete ==
  Flushed /\ ByPointer /\
    \E i \in DOMAIN todos : ~InEditMode(todos[i]) /\ deleteTodo(todos[i].id)
ClickEdit ==
  Flushed /\ ByPointer /\ \E i \in DOMAIN todos :
               ~InEditMode(todos[i]) /\ startEdit(todos[i].id, todos[i].text)
ChangeEditInput ==
  Flushed /\ ByPointer /\ \E i \in DOMAIN todos :
               InEditMode(todos[i]) /\ \E v \in Texts : SetEditingText(v)
ClickSave ==
  Flushed /\ ByPointer /\
    \E i \in DOMAIN todos : InEditMode(todos[i]) /\ saveEdit(todos[i].id)
ClickCancel ==
  Flushed /\ ByPointer /\ \E i \in DOMAIN todos : InEditMode(todos[i]) /\ cancelEdit

\* onKeyPress={handleKeyPress} of the add field
PressKeyInAddField ==
  Flushed /\ \E key \in Keys : ByKey("add", key, Null) /\ handleKeyPress(key)

\* onKeyDown={(e) => handleEditKeyPress(e, todo.id)} of the edit field
PressKeyInEditField ==
  Flushed /\ \E i \in DOMAIN todos :
               /\ InEditMode(todos[i])
               /\ \E key \in Keys :
                    ByKey("edit", key, todos[i].id) /\ handleEditKeyPress(key, todos[i].id)

Next ==
  \/ ChangeInput
  \/ ClickAdd
  \/ ClickCheckbox
  \/ ClickDelete
  \/ ClickEdit
  \/ ChangeEditInput
  \/ ClickSave
  \/ ClickCancel
  \/ PressKeyInAddField
  \/ PressKeyInEditField

Spec == Init /\ [][Next]_vars

\* ------------------------------------------------------------- the handlers called with any argument
CallToggle == Flushed /\ ByPointer /\ \E id \in Ids : toggleTodo(id)
CallDelete == Flushed /\ ByPointer /\ \E id \in Ids : deleteTodo(id)
CallStartEdit ==
  Flushed /\ ByPointer /\ \E id \in Ids : \E text \in Texts : startEdit(id, text)
CallSetEditingText == Flushed /\ ByPointer /\ \E v \in Texts : SetEditingText(v)
CallSaveEdit == Flushed /\ ByPointer /\ \E id \in Ids : saveEdit(id)
CallCancelEdit == Flushed /\ ByPointer /\ cancelEdit

NextApi ==
  \/ ChangeInput
  \/ ClickAdd
  \/ CallToggle
  \/ CallDelete
  \/ CallStartEdit
  \/ CallSetEditingText
  \/ CallSaveEdit
  \/ CallCancelEdit

SpecApi == Init /\ [][NextApi]_vars

\* ------------------------------------------------------------- a scripted run of the page
\* From the empty page: type a, add, type b, add, toggle the first item,
\* delete the second. The two texts are any that addTodo accepts; each add
\* reads the clock as always.
ScriptTexts == {t \in Texts : ~IsBlank(t)}

InitScript ==
  /\ todos = <<>>
  /\ inputValue = <<>>
  /\ editingId = Null
  /\ editingText = <<>>
  /\ last = NoHandler
  /\ prev = <<>>
  /\ before2 = <<>>
  /\ held = <<>>
  /\ script \in [step : {"typeA"}, a : ScriptTexts, b : ScriptTexts]
  /\ queue = <<>>
  /\ eager = <<>>
  /\ pressed = NoKey
  /\ appTodos = <<>>
  /\ state = [todos |-> <<>>]

ScriptStep(from, to) ==
  /\ script.step = from
  /\ script' = [script EXCEPT !.step = to]
  /\ UNCHANGED <<queue, eager, pressed, appTodos, state>>

ScriptTypeA == ScriptStep("typeA", "addA") /\ SetInputValue(script.a)
ScriptAddA == ScriptStep("addA", "typeB") /\ addTodo
ScriptTypeB == ScriptStep("typeB", "addB") /\ SetInputValue(script.b)
ScriptAddB == ScriptStep("addB", "toggleA") /\ addTodo
ScriptToggleA == ScriptStep("toggleA", "deleteB") /\ toggleTodo(todos[1].id)
ScriptDeleteB == ScriptStep("deleteB", "done") /\ deleteTodo(todos[2].id)

NextScript ==
  \/ ScriptTypeA
  \/ ScriptAddA
  \/ ScriptTypeB
  \/ ScriptAddB
  \/ ScriptToggleA
  \/ ScriptDeleteB

SpecScript == InitScript /\ [][NextScript]_vars

\* ------------------------------------------------------------- several events before one render
\* React queues what the setState calls are given and applies the queue when
\* it renders: an updater function receives the result of the update before
\* it, a plain value replaces the state. Until the render every handler sees
\* the state of the last render.

\* a queued call of setTodos (kind names the updater) or of another setter
Update(hook, kind, id, text, list) ==
  [hook |-> hook, kind |-> kind, id |-> id, text |-> text, list |-> list]

\* the list computed from the rendered todos: setTodos([...todos, newTodo])
addTodoUpdateFromRendered(rendered, now, text) ==
  Update("todos", "value", Null, <<>>, Append(rendered, newTodo(now, text)))

\* setTodos(prev => [...prev, newTodo])
addTodoUpdate(rendered, now, text) == Update("todos", "add", now, text, <<>>)

\* setTodos(prev => prev.map(... completed: !todo.completed ...))
toggleTodoUpdate(rendered, id) == Update("todos", "toggle", id, <<>>, <<>>)

\* setTodos(prev => prev.filter(todo => todo.id !== id))
deleteTodoUpdate(rendered, id) == Update("todos", "delete", id, <<>>, <<>>)

\* setTodos(prev => prev.map(... text: editingText ...))
saveEditUpdate(rendered, id, text) == Update("todos", "edit", id, text, <<>>)

\* setInputValue(''), setEditingId(null), setEditingText('')
setInputValueUpdate(v) == Update("inputValue", "value", Null, v, <<>>)
setEditingIdUpdate(id) == Update("editingId", "value", id, <<>>, <<>>)
setEditingTextUpdate(v) == Update("editingText", "value", Null, v, <<>>)

\* one queued setTodos call applied to the list it receives
applyUpdate(list, u) ==
  CASE u.kind = "add" -> addUpdater(list, newTodo(u.id, u.text))
    [] u.kind = "toggle" -> toggleUpdater(list, u.id)
    [] u.kind = "delete" -> deleteUpdater(list, u.id)
    [] u.kind = "edit" -> editUpdater(list, u.id, u.text)
    [] OTHER -> u.list

\* the queue of one hook, in the order of the calls
QueueOf(hook, q) == SelectSeq(q, LAMBDA u : u.hook = hook)

\* the queued setTodos calls applied in order, each to the result of the one before
RECURSIVE reduceTodos(_, _)
reduceTodos(list, q) ==
  IF q = <<>> THEN list ELSE reduceTodos(applyUpdate(list, Head(q)), Tail(q))

\* the handlers in the queue that called setTodos
Batched == Len(QueueOf("todos", queue))

\* a handler whose render is still to come: the state of the last render stays
Deferred ==
  /\ UNCHANGED <<todos, inputValue, editingId, editingText, script>>
  /\ UNCHANGED <<pressed, appTodos, state>>
  /\ last' = Ran("deferred", Null, <<>>)
  /\ prev' = todos
  /\ before2' = <<>>
  /\ held' = todos

\* addTodo with the render deferred
QueueAdd ==
  /\ Batched < MaxBatch
  /\ Deferred
  /\ IF IsBlank(inputValue)
     THEN UNCHANGED <<queue, eager>>
     ELSE /\ Len(eager) < MaxTodos
          /\ \E now \in Clock :
               /\ queue' = queue \o <<addTodoUpdate(todos, now, inputValue),
                                      setInputValueUpdate(<<>>)>>
               /\ eager' = addUpdater(eager, newTodo(now, inputValue))

\* toggleTodo with the render deferred
QueueToggle ==
  /\ Batched < MaxBatch
  /\ Deferred
  /\ \E i \in DOMAIN todos :
       /\ queue' = Append(queue, toggleTodoUpdate(todos, todos[i].id))
       /\ eager' = toggleUpdater(eager, todos[i].id)

\* deleteTodo with the render deferred
QueueDelete ==
  /\ Batched < MaxBatch
  /\ Deferred
  /\ \E i \in DOMAIN todos :
       /\ ~InEditMode(todos[i])
       /\ queue' = Append(queue, deleteTodoUpdate(todos, todos[i].id))
       /\ eager' = deleteUpdater(eager, todos[i].id)

\* saveEdit with the render deferred
QueueSave ==
  /\ Batched < MaxBatch
  /\ Deferred
  /\ \E i \in DOMAIN todos :
       /\ InEditMode(todos[i])
       /\ IF IsBlank(editingText)
          THEN UNCHANGED <<queue, eager>>
          ELSE /\ queue' = queue \o
                    <<saveEditUpdate(todos, todos[i].id, editingText),
                      setEditingIdUpdate(Null), setEditingTextUpdate(<<>>)>>
               /\ eager' = editUpdater(eager, todos[i].id, editingText)

\* the render: every hook takes the result of its queue
Render ==
  /\ queue # <<>>
  /\ todos' = reduceTodos(todos, QueueOf("todos", queue))
  /\ inputValue' = IF QueueOf("inputValue", queue) = <<>> THEN inputValue
                   ELSE QueueOf("inputValue", queue)[Len(QueueOf("inputValue", queue))].text
  /\ editingId' = IF QueueOf("editingId", queue) = <<>> THEN editingId
                  ELSE QueueOf("editingId", queue)[Len(QueueOf("editingId", queue))].id
  /\ editingText' = IF QueueOf("editingText", queue) = <<>> THEN editingText
                    ELSE QueueOf("editingText", queue)[Len(QueueOf("editingText", queue))].text
  /\ queue' = <<>>
  /\ last' = Ran("render", Batched, <<>>)
  /\ prev' = todos
  /\ before2' = <<>>
  /\ held' = todos
  /\ UNCHANGED <<script, eager, pressed, appTodos, state>>

\* the events that do not call setTodos, each rendered at once
TypeBetweenBatches == queue = <<>> /\ ChangeInput
EditBetweenBatches == queue = <<>> /\ ClickEdit
TypeEditBetweenBatches == queue = <<>> /\ ChangeEditInput
CancelBetweenBatches == queue = <<>> /\ ClickCancel

NextBatch ==
  \/ QueueAdd
  \/ QueueToggle
  \/ QueueDelete
  \/ QueueSave
  \/ Render
  \/ TypeBetweenBatches
  \/ EditBetweenBatches
  \/ TypeEditBetweenBatches
  \/ CancelBetweenBatches

SpecBatch == Init /\ [][NextBatch]_vars

\* ------------------------------------------------------------- the tutorial's variants of the list
\* The component-split TodoApp keeps the list in the parent component; its
\* TodoInput validates the text before it calls onAdd. Each reading of
\* Date.now() is the parameter now.

\* addTodo of TodoApp: setTodos(prev => [...prev, {id: Date.now(), text, completed: false}])
appAddTodo(list, now, text) ==
  Append(list, [id |-> now, text |-> text, completed |-> FALSE])

\* toggleTodo of TodoApp
appToggleTodo(list, id) ==
  [i \in DOMAIN list |->
     IF list[i].id = id THEN [list[i] EXCEPT !.completed = ~list[i].completed]
     ELSE list[i]]

\* deleteTodo of TodoApp
appDeleteTodo(list, id) == SelectSeq(list, LAMBDA t : t.id # id)

\* the actions dispatched to todoReducer
addAction(text) == [type |-> "add", text |-> text]
toggleAction(id) == [type |-> "toggle", id |-> id]
deleteAction(id) == [type |-> "delete", id |-> id]

\* the reducer with the new item put first in the case 'add'
todoReducerPrepends(st, action, now) ==
  CASE action.type = "add" ->
         [todos |-> <<[id |-> now, text |-> action.text, completed |-> FALSE]>>
                      \o st.todos]
    [] action.type = "toggle" ->
         [todos |-> [i \in DOMAIN st.todos |->
                       IF st.todos[i].id = action.id
                       THEN [st.todos[i] EXCEPT !.completed = ~st.todos[i].completed]
                       ELSE st.todos[i]]]
    [] action.type = "delete" ->
         [todos |-> SelectSeq(st.todos, LAMBDA t : t.id # action.id)]
    [] OTHER -> st

\* const todoReducer = (state, action) => {switch (action.type) ...}
todoReducer(st, action, now) ==
  CASE action.type = "add" ->
         [todos |-> Append(st.todos,
                           [id |-> now, text |-> action.text, completed |-> FALSE])]
    [] action.type = "toggle" ->
         [todos |-> [i \in DOMAIN st.todos |->
                       IF st.todos[i].id = action.id
                       THEN [st.todos[i] EXCEPT !.completed = ~st.todos[i].completed]
                       ELSE st.todos[i]]]
    [] action.type = "delete" ->
         [todos |-> SelectSeq(st.todos, LAMBDA t : t.id # action.id)]
    [] OTHER -> st

\* a command given to the page and to both variants; nothing is queued
Commanded == ByPointer /\ UNCHANGED <<script, queue, eager>>

\* add(text) with a text the validation lets through: the page reads it from
\* its input field, the variants receive it; all three store the same reading
\* of the clock
CommandAdd ==
  /\ Commanded
  /\ ~IsBlank(inputValue)
  /\ addTodo
  /\ appTodos' = appAddTodo(appTodos, last'.id, inputValue)
  /\ state' = todoReducer(state, addAction(inputValue), last'.id)

CommandToggle ==
  /\ Commanded
  /\ \E id \in Ids :
       /\ toggleTodo(id)
       /\ appTodos' = appToggleTodo(appTodos, id)
       /\ \E now \in Clock : state' = todoReducer(state, toggleAction(id), now)

CommandDelete ==
  /\ Commanded
  /\ \E id \in Ids :
       /\ deleteTodo(id)
       /\ appTodos' = appDeleteTodo(appTodos, id)
       /\ \E now \in Clock : state' = todoReducer(state, deleteAction(id), now)

NextVariants ==
  \/ ChangeInput
  \/ CommandAdd
  \/ CommandToggle
  \/ CommandDelete

SpecVariants == Init /\ [][NextVariants]_vars

\* ------------------------------------------------------------- vocabulary of the properties
\* a text that is empty or consists only of whitespace
OnlyWhiteSpace(s) == \A i \in DOMAIN s : s[i] \in WhiteSpace

\* the positions at which two lists of equal length differ
Differing(a, b) == {i \in DOMAIN a : a[i] # b[i]}

\* the handler that ran last accepted its text and changed the list's items
Added == last.op = "addTodo" /\ ~OnlyWhiteSpace(last.arg)
Saved == last.op = "saveEdit" /\ ~OnlyWhiteSpace(last.arg)

\* ------------------------------------------------------------- C1
\* C1: in every reachable state the items of the list have pairwise distinct
\* ids, also when two adds read the same clock value.
UniqueIds ==
  \A i, j \in DOMAIN todos : i # j => todos[i].id # todos[j].id

\* ------------------------------------------------------------- C2
\* C2 as stated: after an add of a non-blank input the appended item's text is
\* the trimmed input.
AddStoresTrimmed ==
  Added =>
    /\ Len(todos) = Len(prev) + 1
    /\ todos[Len(todos)].text = Trim(last.arg)

\* C2 amended: after an add of a non-blank input the list is the previous list
\* with one item appended whose text is the input exactly as typed, leading
\* and trailing whitespace kept.
AddStoresRaw ==
  Added =>
    /\ Len(todos) = Len(prev) + 1
    /\ SubSeq(todos, 1, Len(prev)) = prev
    /\ todos[Len(todos)].text = last.arg

\* an add of an input with surrounding whitespace has been accepted
AddStoresRawWitness ==
  /\ Added
  /\ Len(last.arg) = MaxLen
  /\ last.arg # Trim(last.arg)
  /\ todos[Len(todos)].text = last.arg

\* ------------------------------------------------------------- C3
\* C3 as stated: after a confirmed edit with a non-blank text every item with
\* the edited id carries the trimmed text.
EditStoresTrimmed ==
  Saved =>
    \A i \in DOMAIN todos :
      prev[i].id = last.id => todos[i].text = Trim(last.arg)

\* C3 amended: after a confirmed edit with a non-blank text every item with
\* the edited id carries the text exactly as typed, whitespace kept.
EditStoresRaw ==
  Saved =>
    /\ Len(todos) = Len(prev)
    /\ \A i \in DOMAIN todos :
         prev[i].id = last.id => todos[i].text = last.arg

\* a confirmed edit has replaced an item's text by one with surrounding whitespace
EditStoresRawWitness ==
  /\ Saved
  /\ last.arg # Trim(last.arg)
  /\ \E i \in DOMAIN todos :
       prev[i].id = last.id /\ prev[i].text # last.arg /\ todos[i].text = last.arg

\* ------------------------------------------------------------- C4
\* C4: in every reachable state no item's text is empty or only whitespace.
NoBlankText ==
  \A i \in DOMAIN todos : ~OnlyWhiteSpace(todos[i].text)

\* a list built by add whose item a confirmed edit has just rewritten
NoBlankTextWitness ==
  /\ Saved
  /\ Len(todos) = MaxTodos
  /\ \E i \in DOMAIN todos : prev[i].id = last.id /\ todos[i].text # prev[i].text

\* ------------------------------------------------------------- C5
\* C5: in every reachable state the displayed total is the length of the list
\* and completed + remaining = total.
StatsInvariant ==
  /\ statsTotal = Len(todos)
  /\ statsCompleted + statsRemaining = statsTotal

\* a list with a completed and an open item
StatsInvariantWitness ==
  /\ statsCompleted >= 1
  /\ statsRemaining >= 1
  /\ \E i, j \in DOMAIN todos : todos[i].completed /\ ~todos[j].completed

\* ------------------------------------------------------------- C6
\* C6: an add whose input is empty or only whitespace leaves the list as it was.
BlankAddNoChange ==
  (last.op = "addTodo" /\ OnlyWhiteSpace(last.arg)) => todos = prev

\* an add of a whitespace-only input has run on a non-empty list
BlankAddNoChangeWitness ==
  /\ last.op = "addTodo"
  /\ OnlyWhiteSpace(last.arg)
  /\ last.arg # <<>>
  /\ Len(prev) > 0

\* ------------------------------------------------------------- C7
\* C7: a confirmed edit whose text is empty or only whitespace leaves the
\* whole list as it was.
BlankEditNoChange ==
  (last.op = "saveEdit" /\ OnlyWhiteSpace(last.arg)) => todos = prev

\* a confirmed edit of an existing item with a whitespace-only text has run
BlankEditNoChangeWitness ==
  /\ last.op = "saveEdit"
  /\ OnlyWhiteSpace(last.arg)
  /\ last.arg # <<>>
  /\ HasId(prev, last.id)

\* ------------------------------------------------------------- C8
\* C8: toggle, delete and confirmed edit called with an id that no item
\* carries leave the list as it was.
AbsentIdNoChange ==
  (last.op \in {"toggleTodo", "deleteTodo", "saveEdit"} /\ ~HasId(prev, last.id))
    => todos = prev

\* a confirmed edit with a non-blank text has run for an id the non-empty list lacks
AbsentIdNoChangeWitness ==
  /\ Saved
  /\ Len(prev) > 0
  /\ ~HasId(prev, last.id)

\* ------------------------------------------------------------- C9
\* C9: after a toggle at most one item differs from the list before it, and
\* that item differs in its completed flag only.
ToggleAtMostOne ==
  last.op = "toggleTodo" =>
    /\ Len(todos) = Len(prev)
    /\ Cardinality(Differing(todos, prev)) <= 1
    /\ \A i \in Differing(todos, prev) :
         todos[i] = [prev[i] EXCEPT !.completed = ~prev[i].completed]

\* ------------------------------------------------------------- C10
\* C10: toggle(id) followed at once by toggle(id) yields the list as it was
\* before the first of the two.
DoubleToggleRestores ==
  (last.op = "toggleTodo" /\ last.rep) => todos = before2

\* an item of the list has been toggled twice in a row
DoubleToggleRestoresWitness ==
  /\ last.op = "toggleTodo"
  /\ last.rep
  /\ HasId(todos, last.id)
  /\ prev # todos
  /\ Len(todos) = MaxTodos

\* ------------------------------------------------------------- more vocabulary
\* the items of a list carry pairwise distinct ids
DistinctIds(list) ==
  \A i, j \in DOMAIN list : i # j => list[i].id # list[j].id

\* the strictly increasing maps from 1..m into 1..n
IncreasingMaps(m, n) ==
  {f \in [1..m -> 1..n] : \A i, j \in 1..m : i < j => f[i] < f[j]}

\* a is b with some items left out, the others unchanged and in b's order
IsSubsequence(a, b) ==
  \E f \in IncreasingMaps(Len(a), Len(b)) : \A i \in 1..Len(a) : a[i] = b[f[i]]

\* a list with the item at position k left out
Without(list, k) == SubSeq(list, 1, k - 1) \o SubSeq(list, k + 1, Len(list))

\* the handlers that do not call setTodos
ListKeepers ==
  {"none", "setInputValue", "startEdit", "cancelEdit", "setEditingText",
   "handleKeyPress", "handleEditKeyPress"}

\* ------------------------------------------------------------- C11
\* C11: a single delete shortens the list by at most one item.
DeleteAtMostOne ==
  last.op = "deleteTodo" =>
    /\ Len(todos) <= Len(prev)
    /\ Len(prev) - Len(todos) <= 1

\* ------------------------------------------------------------- C12
\* C12: on a list of N items with pairwise distinct ids, delete(id) for a
\* present id yields N-1 items: every other item unchanged and in the same
\* order, and no item with that id.
DeleteRemovesExactlyOne ==
  (last.op = "deleteTodo" /\ DistinctIds(prev) /\ HasId(prev, last.id)) =>
    /\ Len(todos) = Len(prev) - 1
    /\ ~HasId(todos, last.id)
    /\ \E k \in DOMAIN prev : prev[k].id = last.id /\ todos = Without(prev, k)

\* the first of two items with distinct ids has been deleted
DeleteRemovesExactlyOneWitness ==
  /\ last.op = "deleteTodo"
  /\ DistinctIds(prev)
  /\ Len(prev) = MaxTodos
  /\ prev[1].id = last.id
  /\ todos = Tail(prev)

\* ------------------------------------------------------------- C13
\* C13: a confirmed edit changes the text of at most one item and leaves the
\* id, the completed flag and the position of every item as they were.
EditAtMostOne ==
  Saved =>
    /\ Len(todos) = Len(prev)
    /\ Cardinality(Differing(todos, prev)) <= 1
    /\ \A i \in DOMAIN todos :
         /\ todos[i].id = prev[i].id
         /\ todos[i].completed = prev[i].completed

\* ------------------------------------------------------------- C14
\* C14: an add with a non-blank text lengthens the list by exactly one: the
\* items before it are unchanged, the new item is last and not completed, and
\* on the empty list the result has length 1.
AddAppendsOne ==
  Added =>
    /\ Len(todos) = Len(prev) + 1
    /\ \A i \in DOMAIN prev : todos[i] = prev[i]
    /\ todos[Len(todos)].completed = FALSE
    /\ (prev = <<>> => Len(todos) = 1)

\* an item has been added behind a completed one
AddAppendsOneWitness ==
  /\ Added
  /\ Len(prev) >= 1
  /\ prev[1].completed
  /\ todos[Len(todos)] # prev[1]
  /\ Len(todos) = Len(prev) + 1

CompletedOnlyByToggle ==
  /\ last.op = "addTodo" =>
       \A i \in DOMAIN prev : todos[i].completed = prev[i].completed
  /\ last.op = "saveEdit" =>
       /\ Len(todos) = Len(prev)
       /\ \A i \in DOMAIN todos : todos[i].completed = prev[i].completed
  /\ last.op = "deleteTodo" =>
       \E f \in IncreasingMaps(Len(todos), Len(prev)) :
         \A i \in DOMAIN todos :
           /\ todos[i].id = prev[f[i]].id
           /\ todos[i].completed = prev[f[i]].completed
  /\ last.op \in ListKeepers =>
       /\ Len(todos) = Len(prev)
       /\ \A i \in DOMAIN todos : todos[i].completed = prev[i].completed

\* a confirmed edit has rewritten the text of a completed item
CompletedOnlyByToggleWitness ==
  /\ Saved
  /\ \E i \in DOMAIN todos :
       /\ prev[i].id = last.id
       /\ prev[i].completed
       /\ todos[i].text # prev[i].text
       /\ todos[i].completed

\* ------------------------------------------------------------- C18
\* C18: deletion is permanent: a delete leaves no item with the deleted id
\* (no archived copy stays in the list), and a later toggle, confirmed edit,
\* start-edit or cancel-edit never puts an id into the list that was not in
\* it before that step, in particular not the id deleted just before.
DeletionPermanent ==
  /\ last.op = "deleteTodo" => ~HasId(todos, last.id)
  /\ last.op \in {"toggleTodo", "saveEdit", "startEdit", "cancelEdit"} =>
       \A i \in DOMAIN todos : HasId(prev, todos[i].id)
  /\ last.del => ~HasId(todos, last.id)

\* a confirmed edit with a non-blank text has run for the id deleted just before
DeletionPermanentWitness ==
  /\ Saved
  /\ last.del
  /\ Len(todos) >= 1
  /\ ~HasId(todos, last.id)

ScriptEndsWithA ==
  script.step = "done" =>
    /\ Len(todos) = 1
    /\ todos[1].text = script.a
    /\ todos[1].completed
    /\ statsTotal = 1
    /\ statsCompleted = 1
    /\ statsRemaining = 0

CancelReverts ==
  (last.op = "cancelEdit" /\ last.sess \in {"started", "typed"}) =>
    /\ todos = last.start
    /\ editingId = Null

\* an edit of a list of MaxTodos items has been cancelled after typing
CancelRevertsWitness ==
  /\ last.op = "cancelEdit"
  /\ last.sess = "typed"
  /\ Len(last.start) = MaxTodos
  /\ todos = last.start
  /\ editingId = Null

\* ------------------------------------------------------------- C22
\* C22: an add that is accepted leaves the add field empty; an add that is
\* rejected for a blank input leaves the add field as it was.
AddResetsInput ==
  last.op = "addTodo" =>
    IF OnlyWhiteSpace(last.arg) THEN inputValue = last.arg ELSE inputValue = <<>>

\* an input of MaxLen characters has been added and the field is empty
AddResetsInputWitness ==
  /\ Added
  /\ Len(last.arg) = MaxLen
  /\ Len(todos) = Len(prev) + 1
  /\ inputValue = <<>>

\* ------------------------------------------------------------- C23
\* C23: a confirmed edit that is accepted leaves edit mode, editingId null
\* and the pending text empty; one that is rejected for a blank text stays in
\* edit mode for the same item with the pending text as it was.
SaveLeavesEditMode ==
  last.op = "saveEdit" =>
    IF OnlyWhiteSpace(last.arg)
    THEN /\ editingId = last.eid
         /\ editingId = last.id
         /\ editingId # Null
         /\ editingText = last.arg
    ELSE /\ editingId = Null
         /\ editingText = <<>>

\* a confirmed edit with a text of spaces has been rejected
SaveLeavesEditModeWitness ==
  /\ last.op = "saveEdit"
  /\ OnlyWhiteSpace(last.arg)
  /\ last.arg # <<>>
  /\ HasId(todos, editingId)
  /\ editingText = last.arg

\* ------------------------------------------------------------- C24
\* what the add button does, by click or by key
AddEffect ==
  IF OnlyWhiteSpace(last.arg)
  THEN todos = prev /\ inputValue = last.arg
  ELSE /\ todos = Append(prev, [id |-> last.id, text |-> last.arg, completed |-> FALSE])
       /\ inputValue = <<>>

\* what the save button of an item does
SaveEffect ==
  IF OnlyWhiteSpace(last.arg)
  THEN todos = prev /\ editingId = last.eid /\ editingText = last.arg
  ELSE /\ Len(todos) = Len(prev)
       /\ \A i \in DOMAIN todos :
            todos[i] = IF prev[i].id = last.id THEN [prev[i] EXCEPT !.text = last.arg]
                       ELSE prev[i]
       /\ editingId = Null
       /\ editingText = <<>>

\* what the cancel button does
CancelEffect == todos = prev /\ editingId = Null /\ editingText = <<>>

\* the key events that the handlers map to an operation
Mapped ==
  {[field |-> "add", key |-> "Enter", id |-> Null]} \cup
  {[field |-> "edit", key |-> k, id |-> id] : k \in {"Enter", "Escape"}, id \in Ids}

\* C24: Enter in the add field runs the add of the add button; in an item's
\* edit field Enter runs the save of that item and Escape the cancel, each
\* with the effect the button has; any other key changes neither the list nor
\* editingId nor the pending text.
KeysMapToOperations ==
  /\ last.op = "addTodo" => AddEffect
  /\ last.op = "saveEdit" => SaveEffect
  /\ last.op = "cancelEdit" => CancelEffect
  /\ (pressed.field = "add" /\ pressed.key = "Enter") => last.op = "addTodo"
  /\ (pressed.field = "edit" /\ pressed.key = "Enter") =>
       last.op = "saveEdit" /\ last.id = pressed.id
  /\ (pressed.field = "edit" /\ pressed.key = "Escape") => last.op = "cancelEdit"
  /\ (pressed # NoKey /\ pressed \notin Mapped) =>
       /\ todos = prev
       /\ editingId = last.eid
       /\ editingText = last.etext

\* Enter in the edit field has saved a new text for the item
KeysMapToOperationsWitness ==
  /\ pressed.field = "edit"
  /\ pressed.key = "Enter"
  /\ Saved
  /\ \E i \in DOMAIN todos :
       prev[i].id = pressed.id /\ todos[i].text = last.arg /\ todos[i] # prev[i]

\* ------------------------------------------------------------- C25
\* C25: under the events the rendered page offers, whenever editingId is not
\* null the list holds an item with that id.
EditingIdPresent == editingId # Null => HasId(todos, editingId)

\* another item has been deleted while an item is in edit mode
EditingIdPresentWitness ==
  /\ editingId # Null
  /\ last.op = "deleteTodo"
  /\ Len(prev) = MaxTodos
  /\ Len(todos) = Len(prev) - 1
  /\ HasId(todos, editingId)

\* ------------------------------------------------------------- C26
\* C26: when editingId is null the pending edit text is empty, and right
\* after start-edit on an item the pending edit text is that item's text.
PendingTextFollowsMode ==
  /\ editingId = Null => editingText = <<>>
  /\ last.op = "startEdit" =>
       /\ editingId = last.id
       /\ \E i \in DOMAIN todos : todos[i].id = editingId /\ todos[i].text = editingText

\* start-edit has run on the second of two items with different texts
PendingTextFollowsModeWitness ==
  /\ last.op = "startEdit"
  /\ Len(todos) = MaxTodos
  /\ todos[1].id # editingId
  /\ todos[Len(todos)].id = editingId
  /\ todos[Len(todos)].text = editingText
  /\ todos[1].text # editingText

\* ------------------------------------------------------------- C27
\* C27: start-edit on item B while item A is in edit mode moves edit mode to
\* B, makes B's text the pending text and leaves the list as it was: the
\* text pending for A is written to no item.
StartEditMovesEditMode ==
  (last.op = "startEdit" /\ last.eid # Null /\ last.eid # last.id) =>
    /\ editingId = last.id
    /\ editingId # last.eid
    /\ \E i \in DOMAIN todos : todos[i].id = last.id /\ todos[i].text = editingText
    /\ todos = prev

\* start-edit has run on B while A, still in the list, was in edit mode
StartEditMovesEditModeWitness ==
  /\ last.op = "startEdit"
  /\ last.eid # Null
  /\ last.eid # last.id
  /\ HasId(todos, last.eid)
  /\ editingId = last.id
  /\ \E i, j \in DOMAIN todos :
       /\ todos[i].id = last.eid
       /\ todos[j].id = last.id
       /\ todos[i].text # todos[j].text

\* ------------------------------------------------------------- C28
\* C28: a toggle while an item is in edit mode leaves editingId and the
\* pending text as they were, and a confirmed edit after it writes the text
\* only: every item keeps the completed flag it had before the save, the
\* flag set by the toggle included.
ToggleKeepsEditSaveKeepsFlag ==
  /\ (last.op = "toggleTodo" /\ last.eid # Null) =>
       /\ editingId = last.eid
       /\ editingText = last.etext
  /\ Saved =>
       /\ Len(todos) = Len(prev)
       /\ \A i \in DOMAIN todos :
            /\ todos[i].completed = prev[i].completed
            /\ prev[i].id = last.id => todos[i].text = last.arg

\* the item in edit mode was toggled to completed, then saved with a new text
ToggleKeepsEditSaveKeepsFlagWitness ==
  /\ Saved
  /\ last.tog
  /\ \E i \in DOMAIN todos :
       /\ prev[i].id = last.id
       /\ prev[i].completed
       /\ todos[i].completed
       /\ todos[i].text # prev[i].text

\* ------------------------------------------------------------- C29
\* C29: toggle(id), delete(id) and a confirmed edit(id, text) act on every
\* item whose id is id and on no other: toggle negates the flag of each, the
\* edit writes the text of each, delete removes each, and every item with
\* another id keeps its fields and its place among the others.
ActsOnMatchingIdsOnly ==
  /\ last.op = "toggleTodo" =>
       /\ Len(todos) = Len(prev)
       /\ \A i \in DOMAIN todos :
            todos[i] = IF prev[i].id = last.id
                       THEN [prev[i] EXCEPT !.completed = ~prev[i].completed]
                       ELSE prev[i]
  /\ Saved =>
       /\ Len(todos) = Len(prev)
       /\ \A i \in DOMAIN todos :
            todos[i] = IF prev[i].id = last.id
                       THEN [prev[i] EXCEPT !.text = last.arg]
                       ELSE prev[i]
  /\ last.op = "deleteTodo" =>
       \E f \in IncreasingMaps(Len(todos), Len(prev)) :
         /\ \A i \in DOMAIN todos : todos[i] = prev[f[i]]
         /\ {f[i] : i \in DOMAIN todos} = {k \in DOMAIN prev : prev[k].id # last.id}

\* a toggle has negated the flags of two items that carry the same id
ActsOnMatchingIdsOnlyWitness ==
  /\ last.op = "toggleTodo"
  /\ Len(prev) = MaxTodos
  /\ \A i \in DOMAIN prev : prev[i].id = last.id
  /\ \A i \in DOMAIN todos : todos[i].completed # prev[i].completed

\* ------------------------------------------------------------- C30
\* C30: the page, the component-split TodoApp and todoReducer hold the same
\* list after every command of a run of add(text) with validated text,
\* toggle(id) and delete(id) in which the three are given the same ids.
VariantsAgree ==
  /\ appTodos = todos
  /\ state.todos = todos

\* the three variants agree after a delete that removed one of MaxTodos items
VariantsAgreeWitness ==
  /\ last.op = "deleteTodo"
  /\ Len(prev) = MaxTodos
  /\ Len(todos) = Len(prev) - 1
  /\ todos[1].completed
  /\ appTodos = todos
  /\ state.todos = todos

====
